---- MODULE Spec2Model ----
(***************************************************************************)
(* Model of the storefront in src/app.py: the relational tables, the cart  *)
(* routes (add_to_cart, update_cart), checkout, and register/login/logout. *)
(*                                                                         *)
(* Every request is handled by its own thread with its own database        *)
(* session.  A handler is two steps: the query it starts with (Query...)   *)
(* and the rest (Finish...): its tests on what the query returned, and     *)
(* db.session.commit(), which flushes the pending INSERT / UPDATE / DELETE *)
(* statements in one transaction.  A statement that fails raises: the      *)
(* transaction is rolled back and the request ends with the 500 response   *)
(* of internal_error.                                                      *)
(*                                                                         *)
(* Left out: the pages that only read (index, category, product, cart,     *)
(* orders), contact/feedback (a table no other route touches), the         *)
(* date_ordered column, and requests whose product id names no product or  *)
(* whose quantity is not a number.                                         *)
(***************************************************************************)
EXTENDS Integers, FiniteSets, Sequences, TLC

\* ---------------------------------------------------------------- bounds
MaxCartId == 2          \* largest id a cart_item row may get
MaxQty == 2             \* largest quantity a form may carry or a row may reach
MaxOrders == 2          \* rows the order table may hold

\* ------------------------------------------------------- values and inputs
NoneId == 0                       \* Python None in an integer column / variable
NoneStr == "None"                 \* Python None in a string column / variable
Threads == {"t1", "t2"}           \* request-handling threads
Usernames == {"alice", "bob"}
Emails == {"a@x.com", "b@y.com"}
Passwords == {"pw", "pw2"}
ItemIds == 1..MaxCartId           \* <int:item_id>
\* The 'quantity' form field: <<>> when the field is absent, <<n>> when it is n.
QuantityForms == {<<>>} \cup {<<n>> : n \in -1..MaxQty}
\* The quantities a cart row is let reach.
QuantityRange == -1..MaxQty

\* The product table.  No route writes it; it is seeded outside the program.
Product == {[id |-> 1, price |-> 10], [id |-> 2, price |-> 5]}
ProductIds == {p.id : p \in Product}       \* <int:product_id>

VARIABLES
    user,         \* table user
    cart_item,    \* table cart_item
    order,        \* table order
    order_item,   \* table order_item
    logged_in,    \* ids of the users some browser holds a login session for
    req,          \* per thread: the request it is handling, or its response
    hist          \* history: the add_to_cart requests just completed (SpecSerial)

vars == <<user, cart_item, order, order_item, logged_in, req, hist>>
tables == <<user, cart_item, order, order_item>>

\* ---------------------------------------------------------------- helpers
Max(S) == CHOOSE m \in S : \A x \in S : x <= m

\* Integer primary key: the next row id of a table.
NewId(table) == IF table = {} THEN 1 ELSE Max({r.id : r \in table}) + 1

\* request.form.get('quantity', default) followed by int().
FormQuantity(form, default) == IF form = <<>> THEN default ELSE form[1]

\* item.product: the Product row a cart row points at.
ProductOf(item) == CHOOSE p \in Product : p.id = item.product_id

\* sum(item.product.price * item.quantity for item in cart_items)
RECURSIVE Total(_)
Total(items) ==
    IF items = {} THEN 0
    ELSE LET i == CHOOSE x \in items : TRUE
         IN  ProductOf(i).price * i.quantity + Total(items \ {i})

Idle == [pc |-> "idle", op |-> "none", u |-> NoneId, p |-> NoneId, q |-> 0,
         form |-> <<>>, seen |-> {}, resp |-> "none"]

Busy(t) == req[t].pc = "busy"

\* Thread t starts on a request: op, current_user.id, the id in the URL, the
\* quantity, the other form fields, and the rows its query returned.
Start(t, op, u, p, q, form, seen) ==
    req' = [req EXCEPT ![t] = [pc |-> "busy", op |-> op, u |-> u, p |-> p, q |-> q,
                               form |-> form, seen |-> seen, resp |-> "none"]]

\* The request of thread t ends with response r.
Done(t, r) ==
    req' = [req EXCEPT ![t] = [Idle EXCEPT !.pc = "done", !.op = req[t].op,
                                           !.resp = r]]

\* @login_required together with load_user: current_user is a logged-in user.
LoginRequired(u) == u \in logged_in /\ \E x \in user : x.id = u

\* Number of cart rows the requests in flight are about to insert.
PendingInserts ==
    Cardinality({t \in Threads : Busy(t) /\ req[t].op = "add_to_cart"
                                         /\ req[t].seen = {}})

\* ------------------------------------------------------------ add_to_cart
\* CartItem.query.filter_by(user_id=current_user.id, product_id=product_id)
CartLookup(u, p) == {c \in cart_item : c.user_id = u /\ c.product_id = p}

\* A slip: the quantity is overwritten, not added to.
AddedQuantity_Overwrite(old, q) == q

\* cart_item.quantity += quantity
AddedQuantity(old, q) == old + q

\* Lines 125-126: the quantity and the query.  .first() has no ORDER BY: of
\* several matching rows it returns any one.
QueryAddToCart(t) ==
    \E u \in logged_in, p \in ProductIds, form \in QuantityForms :
      LET q == FormQuantity(form, 1)
          found == CartLookup(u, p)
      IN  /\ ~Busy(t)
          /\ LoginRequired(u)
          /\ \E seen \in (IF found = {} THEN {{}} ELSE {{c} : c \in found}) :
               /\ IF seen = {}
                  THEN /\ NewId(cart_item) + PendingInserts <= MaxCartId
                       /\ q \in QuantityRange
                  ELSE \A c \in seen : AddedQuantity(c.quantity, q) \in QuantityRange
               /\ Start(t, "add_to_cart", u, p, q, <<>>, seen)
          /\ UNCHANGED <<tables, logged_in>>

\* The cart_item table after the flush of add_to_cart, as a set holding the
\* new table, or the empty set when a statement of the flush raises.
AddToCartFlush(r) ==
    IF r.seen = {}
    THEN \* INSERT INTO cart_item
         {cart_item \cup {[id |-> NewId(cart_item), user_id |-> r.u,
                           product_id |-> r.p, quantity |-> r.q]}}
    ELSE LET c == CHOOSE x \in r.seen : TRUE
             n == AddedQuantity(c.quantity, r.q)
         IN  IF n = c.quantity
             THEN {cart_item}                    \* attribute unchanged: no UPDATE
             ELSE IF \E x \in cart_item : x.id = c.id
                  THEN {{IF x.id = c.id THEN [x EXCEPT !.quantity = n] ELSE x
                           : x \in cart_item}}
                  ELSE {}                        \* UPDATE matched no row: StaleDataError

\* Lines 128-136: db.session.commit() and the redirect.
FinishAddToCart(t) ==
    /\ Busy(t) /\ req[t].op = "add_to_cart"
    /\ LET new == AddToCartFlush(req[t])
       IN  IF new = {}
           THEN Done(t, "500") /\ UNCHANGED cart_item
           ELSE Done(t, "redirect_cart") /\ cart_item' \in new
    /\ UNCHANGED <<user, order, order_item, logged_in>>

\* ------------------------------------------------------------ update_cart
\* A slip: the ownership test is missing.
UpdateCartOwner_Anyone(c, u) == TRUE

\* if cart_item.user_id != current_user.id: return 403
UpdateCartOwner(c, u) == c.user_id = u

\* if quantity > 0: set the quantity; else: delete the row
UpdateCartKeeps(q) == q > 0

\* A slip: the quantity is added to, not overwritten.
UpdatedQuantity_Added(old, q) == old + q

\* cart_item.quantity = quantity
UpdatedQuantity(old, q) == q

\* Line 141: CartItem.query.get_or_404(item_id).
QueryUpdateCart(t) ==
    \E u \in logged_in, item_id \in ItemIds, form \in QuantityForms :
      /\ ~Busy(t)
      /\ LoginRequired(u)
      /\ Start(t, "update_cart", u, item_id, FormQuantity(form, 0), <<>>,
               {c \in cart_item : c.id = item_id})
      /\ UNCHANGED <<tables, logged_in>>

\* The cart_item table after the flush of update_cart (as AddToCartFlush).
UpdateCartFlush(r) ==
    LET c == CHOOSE x \in r.seen : TRUE
    IN  IF UpdateCartKeeps(r.q)
        THEN LET n == UpdatedQuantity(c.quantity, r.q)
             IN  IF n = c.quantity
                 THEN {cart_item}
                 ELSE IF \E x \in cart_item : x.id = c.id
                      THEN {{IF x.id = c.id THEN [x EXCEPT !.quantity = n] ELSE x
                               : x \in cart_item}}
                      ELSE {}
        ELSE \* DELETE FROM cart_item WHERE id = ...; a missing row only warns
             {{x \in cart_item : x.id # c.id}}

\* Lines 141-153: the 404, the 403, then the update or the delete.
FinishUpdateCart(t) ==
    /\ Busy(t) /\ req[t].op = "update_cart"
    /\ IF req[t].seen = {}
       THEN Done(t, "404") /\ UNCHANGED cart_item
       ELSE IF \E c \in req[t].seen : ~UpdateCartOwner(c, req[t].u)
       THEN Done(t, "403") /\ UNCHANGED cart_item
       ELSE LET new == UpdateCartFlush(req[t])
            IN  IF new = {}
                THEN Done(t, "500") /\ UNCHANGED cart_item
                ELSE Done(t, "redirect_cart") /\ cart_item' \in new
    /\ UNCHANGED <<user, order, order_item, logged_in>>

\* --------------------------------------------------------------- checkout
\* A slip: the empty-cart test is missing.
CheckoutCartEmpty_Never(items) == FALSE

\* if not cart_items: flash('Your cart is empty!'); return redirect(cart)
CheckoutCartEmpty(items) == items = {}

\* Order(user_id=current_user.id, total_amount=total_amount): a pending
\* object.  Its id is None until the session is flushed; status takes the
\* column default.
NewOrder(u, total) ==
    [id |-> NoneId, user_id |-> u, total_amount |-> total, status |-> "pending"]

\* A variant: the session is flushed before the OrderItems are built, so
\* that order.id is the id the INSERT gives the Order.
NewOrderItem_AfterFlush(o, item) ==
    [id |-> NoneId, order_id |-> NewId(order), product_id |-> item.product_id,
     quantity |-> item.quantity, price |-> ProductOf(item).price]

\* OrderItem(order_id=order.id, product_id=item.product_id,
\*           quantity=item.quantity, price=item.product.price)
NewOrderItem(o, item) ==
    [id |-> NoneId, order_id |-> o.id, product_id |-> item.product_id,
     quantity |-> item.quantity, price |-> ProductOf(item).price]

\* The rows of a query result, in id order.
RECURSIVE RowsById(_)
RowsById(rows) ==
    IF rows = {} THEN <<>>
    ELSE LET m == CHOOSE x \in rows : \A y \in rows : x.id <= y.id
         IN  <<m>> \o RowsById(rows \ {m})

\* Line 159: CartItem.query.filter_by(user_id=current_user.id).all()
QueryCheckout(t) ==
    \E u \in logged_in :
      /\ ~Busy(t)
      /\ LoginRequired(u)
      /\ Cardinality(order) +
           Cardinality({x \in Threads : Busy(x) /\ req[x].op = "checkout"})
             < MaxOrders
      /\ Start(t, "checkout", u, NoneId, 0, <<>>, {c \in cart_item : c.user_id = u})
      /\ UNCHANGED <<tables, logged_in>>

\* A slip: the Order is committed on its own before the OrderItems are
\* flushed, so that it outlives the failure of their INSERT.
CheckoutFlush_OrderCommittedFirst(r) ==
    LET o == NewOrder(r.u, Total(r.seen))
        rows == RowsById(r.seen)
        pending == [k \in 1..Len(rows) |-> NewOrderItem(o, rows[k])]
        oid == NewId(order)
        first == NewId(order_item)
    IN  IF \E k \in 1..Len(rows) : pending[k].order_id = NoneId
        THEN [ok |-> FALSE, order |-> order \cup {[o EXCEPT !.id = oid]},
              order_item |-> order_item, cart_item |-> cart_item]
        ELSE [ok |-> TRUE,
              order |-> order \cup {[o EXCEPT !.id = oid]},
              order_item |-> order_item \cup
                  {[pending[k] EXCEPT !.id = first + k - 1] : k \in 1..Len(rows)},
              cart_item |-> {x \in cart_item : \A c \in r.seen : c.id # x.id}]

\* Lines 164-179: the total, the pending Order and OrderItems, the deletes,
\* and the one db.session.commit() that flushes them in a single
\* transaction: INSERT order, INSERT order_item (order_id is NOT NULL),
\* DELETE cart_item (a missing row only warns).  The result is the three
\* tables after the request and whether the commit succeeded; a failed
\* commit is rolled back.
CheckoutFlush(r) ==
    LET o == NewOrder(r.u, Total(r.seen))
        rows == RowsById(r.seen)
        pending == [k \in 1..Len(rows) |-> NewOrderItem(o, rows[k])]
        oid == NewId(order)
        first == NewId(order_item)
    IN  IF \E k \in 1..Len(rows) : pending[k].order_id = NoneId
        THEN [ok |-> FALSE, order |-> order, order_item |-> order_item,
              cart_item |-> cart_item]
        ELSE [ok |-> TRUE,
              order |-> order \cup {[o EXCEPT !.id = oid]},
              order_item |-> order_item \cup
                  {[pending[k] EXCEPT !.id = first + k - 1] : k \in 1..Len(rows)},
              cart_item |-> {x \in cart_item : \A c \in r.seen : c.id # x.id}]

\* Lines 160-181.
FinishCheckout(t) ==
    /\ Busy(t) /\ req[t].op = "checkout"
    /\ IF CheckoutCartEmpty(req[t].seen)
       THEN Done(t, "empty_cart") /\ UNCHANGED <<cart_item, order, order_item>>
       ELSE LET new == CheckoutFlush(req[t])
            IN  /\ order' = new.order
                /\ order_item' = new.order_item
                /\ cart_item' = new.cart_item
                /\ Done(t, IF new.ok THEN "redirect_orders" ELSE "500")
    /\ UNCHANGED <<user, logged_in>>

\* ------------------------------------------------- register, login, logout
\* generate_password_hash / check_password_hash
PasswordHash(password) == <<"hash", password>>
CheckPasswordHash(h, password) == h = PasswordHash(password)

\* A slip: the query finds nothing.
UserLookup_Nothing(username) == {}

\* User.query.filter_by(username=username).first()
UserLookup(username) == {x \in user : x.username = username}

\* Lines 206-210.  A form field that is absent reads as None.
QueryRegister(t) ==
    \E username \in Usernames \cup {NoneStr}, email \in Emails \cup {NoneStr},
       password \in Passwords :
      /\ ~Busy(t)
      /\ Start(t, "register", NoneId, NoneId, 0, <<username, email, password>>,
               UserLookup(username))
      /\ UNCHANGED <<tables, logged_in>>

\* The user table after INSERT INTO user, as a set holding the new table;
\* empty when a NOT NULL or UNIQUE constraint of the table fails.
RegisterFlush(r) ==
    LET username == r.form[1]
        email == r.form[2]
    IN  IF \/ username = NoneStr \/ email = NoneStr
           \/ \E x \in user : x.username = username
           \/ \E x \in user : x.email = email
        THEN {}
        ELSE {user \cup {[id |-> NewId(user), username |-> username, email |-> email,
                          password_hash |-> PasswordHash(r.form[3])]}}

\* Lines 210-218.
FinishRegister(t) ==
    /\ Busy(t) /\ req[t].op = "register"
    /\ IF req[t].seen # {}
       THEN Done(t, "username_exists") /\ UNCHANGED user
       ELSE LET new == RegisterFlush(req[t])
            IN  IF new = {}
                THEN Done(t, "500") /\ UNCHANGED user
                ELSE Done(t, "redirect_login") /\ user' \in new
    /\ UNCHANGED <<cart_item, order, order_item, logged_in>>

\* Line 196: User.query.filter_by(username=username).first()
QueryLogin(t) ==
    \E username \in Usernames, password \in Passwords :
      /\ ~Busy(t)
      /\ Start(t, "login", NoneId, NoneId, 0, <<username, password>>,
               UserLookup(username))
      /\ UNCHANGED <<tables, logged_in>>

\* Lines 197-201.
FinishLogin(t) ==
    /\ Busy(t) /\ req[t].op = "login"
    /\ LET ok == {x \in req[t].seen : CheckPasswordHash(x.password_hash, req[t].form[2])}
       IN  IF ok = {}
           THEN Done(t, "invalid_login") /\ UNCHANGED logged_in
           ELSE Done(t, "redirect_index") /\ logged_in' = logged_in \cup {x.id : x \in ok}
    /\ UNCHANGED tables

\* Lines 247-251.
Logout(t) ==
    \E u \in logged_in :
      /\ ~Busy(t)
      /\ logged_in' = logged_in \ {u}
      /\ req' = [req EXCEPT ![t] = [Idle EXCEPT !.pc = "done", !.op = "logout",
                                                !.resp = "redirect_index"]]
      /\ UNCHANGED tables

\* ---------------------------------------------------------- specifications
\* The tables as db.create_all() leaves them: nobody has registered.
InitAuth ==
    /\ user = {} /\ cart_item = {} /\ order = {} /\ order_item = {}
    /\ logged_in = {}
    /\ req = [t \in Threads |-> Idle]
    /\ hist = <<>>

NextAuth ==
    \E t \in Threads :
      \/ QueryRegister(t) /\ UNCHANGED hist
      \/ FinishRegister(t) /\ UNCHANGED hist
      \/ QueryLogin(t) /\ UNCHANGED hist
      \/ FinishLogin(t) /\ UNCHANGED hist
      \/ Logout(t) /\ UNCHANGED hist

\* Registration and login, requests running concurrently.
SpecAuth == InitAuth /\ [][NextAuth]_vars

\* alice and bob have registered and logged in (a state of SpecAuth); the
\* carts are empty and no order has been placed.
InitSerial ==
    /\ user = {[id |-> 1, username |-> "alice", email |-> "a@x.com",
                password_hash |-> PasswordHash("pw")],
               [id |-> 2, username |-> "bob", email |-> "b@y.com",
                password_hash |-> PasswordHash("pw2")]}
    /\ cart_item = {} /\ order = {} /\ order_item = {}
    /\ logged_in = {1, 2}
    /\ req = [t \in Threads |-> Idle]
    /\ hist = <<>>

\* The history after thread t finishes an add_to_cart request.  It follows
\* one user's adds of one product from a cart with no row for them: <<r1>>
\* after the first add, <<r1, r2>> when the very next request is a second
\* add of the same product by the same user; r1.before is the cart the first
\* add started from.  Any other request, and a failed one, clears it.
HistoryAfterAdd(t) ==
    LET r == [u |-> req[t].u, p |-> req[t].p, q |-> req[t].q, before |-> cart_item]
    IN  IF req'[t].resp # "redirect_cart" THEN <<>>
        ELSE IF Len(hist) = 1 /\ hist[1].u = r.u /\ hist[1].p = r.p
             THEN <<hist[1], r>>
        ELSE IF \A c \in cart_item : ~(c.user_id = r.u /\ c.product_id = r.p)
             THEN <<r>>
        ELSE <<>>

\* The thread that serves the requests when they come one at a time.
SerialThread == CHOOSE t \in Threads : TRUE

NextSerial ==
    \E t \in {SerialThread} :
      \/ QueryAddToCart(t) /\ UNCHANGED hist
      \/ FinishAddToCart(t) /\ hist' = HistoryAfterAdd(t)
      \/ QueryUpdateCart(t) /\ UNCHANGED hist
      \/ FinishUpdateCart(t) /\ hist' = <<>>
      \/ QueryCheckout(t) /\ UNCHANGED hist
      \/ FinishCheckout(t) /\ hist' = <<>>

\* Cart and checkout requests of the two users, one request at a time.
SpecSerial == InitSerial /\ [][NextSerial]_vars

\* As InitSerial, but only alice is logged in, in two browsers.
Init ==
    /\ user = {[id |-> 1, username |-> "alice", email |-> "a@x.com",
                password_hash |-> PasswordHash("pw")],
               [id |-> 2, username |-> "bob", email |-> "b@y.com",
                password_hash |-> PasswordHash("pw2")]}
    /\ cart_item = {} /\ order = {} /\ order_item = {}
    /\ logged_in = {1}
    /\ req = [t \in Threads |-> Idle]
    /\ hist = <<>>

Next ==
    \E t \in Threads :
      \/ QueryAddToCart(t) /\ UNCHANGED hist
      \/ FinishAddToCart(t) /\ UNCHANGED hist
      \/ QueryUpdateCart(t) /\ UNCHANGED hist
      \/ FinishUpdateCart(t) /\ UNCHANGED hist
      \/ QueryCheckout(t) /\ UNCHANGED hist
      \/ FinishCheckout(t) /\ UNCHANGED hist

\* Cart and checkout requests of alice, running concurrently.
Spec == Init /\ [][Next]_vars

\* ------------------------------------------------------------------ claims
\* Thread t finishes a request of kind op in this step.
Finishing(t, op) == Busy(t) /\ req[t].op = op /\ req'[t].pc = "done"

\* The cart rows of user u.
CartOf(u) == {c \in cart_item : c.user_id = u}

\* C1: a checkout request of a user whose cart is not empty creates exactly
\* one Order for that user, "pending", whose total is the sum of quantity
\* times price over the cart lines, and one OrderItem per cart line with the
\* line's product, quantity and price and the new Order's id, and leaves the
\* user no cart row.
C1_CheckoutCreatesOrder ==
    [][\A t \in Threads :
         Finishing(t, "checkout") /\ CartOf(req[t].u) # {} =>
           LET lines == CartOf(req[t].u)
               items == order_item' \ order_item
           IN  /\ \E o \in order' \ order :
                    /\ order' = order \cup {o}
                    /\ o.user_id = req[t].u
                    /\ o.status = "pending"
                    /\ o.total_amount = Total(lines)
                    /\ \A i \in items : i.order_id = o.id
               /\ order_item \subseteq order_item'
               /\ Cardinality(items) = Cardinality(lines)
               /\ \A c \in lines :
                    Cardinality({i \in items : /\ i.product_id = c.product_id
                                               /\ i.quantity = c.quantity
                                               /\ i.price = ProductOf(c).price})
                      = Cardinality({d \in lines : /\ d.product_id = c.product_id
                                                   /\ d.quantity = c.quantity})
               /\ {c \in cart_item' : c.user_id = req[t].u} = {}]_vars

\* C2: a checkout request either persists a new Order, an OrderItem for each
\* cart row it read and the deletion of those rows, all together, or leaves
\* the cart_item, order and order_item tables as they were.
C2_CheckoutAllOrNothing ==
    [][\A t \in Threads :
         Finishing(t, "checkout") =>
           \/ /\ cart_item' = cart_item /\ order' = order /\ order_item' = order_item
              /\ req'[t].resp # "redirect_orders"
           \/ /\ req'[t].resp = "redirect_orders"
              /\ \E o \in order' \ order :
                   /\ order' = order \cup {o}
                   /\ o.user_id = req[t].u
              /\ order_item \subseteq order_item'
              /\ Cardinality(order_item' \ order_item) = Cardinality(req[t].seen)
              /\ cart_item' = {x \in cart_item : \A c \in req[t].seen : c.id # x.id}
              /\ req[t].seen # {}]_vars

\* A checkout over a cart that is not empty has ended in a failed commit.
C2_Witness ==
    \E t \in Threads :
      /\ req[t].pc = "done" /\ req[t].op = "checkout" /\ req[t].resp = "500"
      /\ cart_item # {} /\ order = {} /\ order_item = {}

\* C3: there is at most one cart_item row per (user_id, product_id) pair.
C3_OneRowPerUserProduct ==
    \A c, d \in cart_item :
      c.user_id = d.user_id /\ c.product_id = d.product_id => c = d

\* C4: from a cart with no row for (u, p), add_to_cart(u, p, q1) and then
\* add_to_cart(u, p, q2) leave exactly one row for (u, p), of quantity
\* q1 + q2, and every other row as it was.
C4_AddTwiceMerges ==
    Len(hist) = 2 =>
      LET u == hist[1].u
          p == hist[1].p
          rows == {c \in cart_item : c.user_id = u /\ c.product_id = p}
      IN  /\ Cardinality(rows) = 1
          /\ \A c \in rows : c.quantity = hist[1].q + hist[2].q
          /\ cart_item \ rows = hist[1].before

\* Two adds of one product have run, next to another row of the cart.
C4_Witness ==
    /\ Len(hist) = 2
    /\ hist[1].q = 1 /\ hist[2].q = 1
    /\ hist[1].before # {}
    /\ \E c \in cart_item : c.user_id = hist[1].u /\ c.product_id = hist[1].p
                             /\ c.quantity = 2

\* C5: every cart_item row has quantity >= 1.
C5_QuantityAtLeastOne == \A c \in cart_item : c.quantity >= 1

\* C6: a checkout that creates an Order converts cart rows that are still in
\* the cart: no cart row is turned into the OrderItems of two Orders.
C6_NoDoubleSpend ==
    [][\A t \in Threads :
         Finishing(t, "checkout") /\ order' # order =>
           req[t].seen \subseteq cart_item]_vars

\* Two checkout requests of one user are in flight over the same cart lines.
C6_Witness ==
    \E t1, t2 \in Threads :
      /\ t1 # t2
      /\ Busy(t1) /\ req[t1].op = "checkout"
      /\ Busy(t2) /\ req[t2].op = "checkout"
      /\ req[t1].u = req[t2].u
      /\ req[t1].seen = req[t2].seen /\ req[t1].seen # {}
      /\ req[t1].seen = cart_item

\* C7: update_cart by a user who does not own the row answers 403, whatever
\* the quantity, and changes no row.
C7_UpdateByNonOwnerForbidden ==
    [][\A t \in Threads :
         /\ Finishing(t, "update_cart")
         /\ \E c \in cart_item : c.id = req[t].p /\ c.user_id # req[t].u
         => /\ req'[t].resp = "403"
            /\ UNCHANGED tables]_vars

\* A non-owner's update_cart has been refused; the row is still there.
C7_Witness ==
    \E t \in Threads :
      /\ req[t].pc = "done" /\ req[t].op = "update_cart" /\ req[t].resp = "403"
      /\ cart_item # {}

\* C8: checkout by a user with no cart row answers with the empty-cart
\* message and changes no table.
C8_EmptyCartCheckoutRefused ==
    [][\A t \in Threads :
         Finishing(t, "checkout") /\ CartOf(req[t].u) = {}
         => /\ req'[t].resp = "empty_cart"
            /\ UNCHANGED tables]_vars

\* A checkout has been refused for an empty cart.
C8_Witness ==
    \E t \in Threads :
      /\ req[t].pc = "done" /\ req[t].op = "checkout" /\ req[t].resp = "empty_cart"
      /\ order = {}

\* C9: register with a username some User row has answers 'Username already
\* exists' and creates no row; no two User rows ever share a username.
C9_RegisterTakenUsername ==
    /\ [](\A x, y \in user : x.username = y.username => x = y)
    /\ [][\A t \in Threads :
            /\ ( /\ ~Busy(t) /\ req'[t].pc = "busy" /\ req'[t].op = "register"
                 /\ \E x \in user : x.username = req'[t].form[1]
                 => req'[t].seen # {} )
            /\ ( Finishing(t, "register") /\ req[t].seen # {}
                 => req'[t].resp = "username_exists" /\ UNCHANGED tables )]_vars

\* A register request has been refused for its username; alice's row is the
\* only one with her name.
C9_Witness ==
    \E t \in Threads :
      /\ req[t].pc = "done" /\ req[t].op = "register"
      /\ req[t].resp = "username_exists"
      /\ Cardinality({x \in user : x.username = "alice"}) = 1

\* C10: update_cart by the owner of the row sets its quantity to q when
\* q > 0 and deletes it when q <= 0; no other row changes.
C10_UpdateByOwner ==
    [][\A t \in Threads :
         Finishing(t, "update_cart") =>
           \A c \in cart_item :
             c.id = req[t].p /\ c.user_id = req[t].u =>
               /\ req'[t].resp = "redirect_cart"
               /\ cart_item' = IF req[t].q > 0
                               THEN (cart_item \ {c}) \cup {[c EXCEPT !.quantity = req[t].q]}
                               ELSE cart_item \ {c}
               /\ UNCHANGED <<user, order, order_item>>]_vars

\* The owner's update_cart has gone through, next to another row.
C10_Witness ==
    \E t \in Threads :
      /\ req[t].pc = "done" /\ req[t].op = "update_cart"
      /\ req[t].resp = "redirect_cart"
      /\ Cardinality(cart_item) = 2

====
